---- MODULE Spec2Model ----
(***************************************************************************)
(* Model of src/app/lib/actions.ts: the invoice server actions             *)
(* createInvoice / updateInvoice / deleteInvoice (reporting variant,       *)
(* lines 1-123) and the strict createInvoice (lines 124-171).              *)
(*                                                                         *)
(* Every invocation is an async function with one suspension point, the    *)
(* awaited sql statement.  An invocation is therefore three steps: the     *)
(* synchronous prefix up to the await, the statement executed atomically   *)
(* by the store (or failing), and the continuation after the await.        *)
(*                                                                         *)
(* Numbers are exact decimals in fixed point with three fraction digits    *)
(* (a number n stands for n.m / Scale).  Binary floating point rounding    *)
(* of amount * 100 is not modelled; the products here are exact.           *)
(***************************************************************************)
EXTENDS Integers, Sequences, FiniteSets, TLC

\* ------------------------------------------------------------------ bounds
MaxCalls == 2

Calls == 1 .. MaxCalls

Scale == 10 * 10 * 10

\* ------------------------------------------------------- form data values
\* FormData.get(name) is a string or null.
Null == [type |-> "null", value |-> << >>]

Str(s) == [type |-> "string", value |-> s]

InvoicesPath == "/dashboard/invoices"

Digits == <<"0", "1", "2", "3", "4", "5", "6", "7", "8", "9">>

IsDigit(c) == \E d \in 1 .. 10 : Digits[d] = c

DigitVal(c) == (CHOOSE d \in 1 .. 10 : Digits[d] = c) - 1

NaN == [nan |-> TRUE, m |-> 0]

Num(m) == [nan |-> FALSE, m |-> m]

RECURSIVE IntPart(_, _)
\* value of a run of decimal digits, most significant first
IntPart(cs, acc) ==
    IF cs = << >> THEN acc ELSE IntPart(Tail(cs), acc * 10 + DigitVal(Head(cs)))

RECURSIVE FracPart(_, _)
\* value, in units of 1/Scale, of the digits after the decimal point
FracPart(cs, weight) ==
    IF cs = << >> \/ weight = 0 THEN 0
    ELSE DigitVal(Head(cs)) * weight + FracPart(Tail(cs), weight \div 10)

DotAt(cs) ==
    IF \E k \in 1 .. Len(cs) : cs[k] = "."
    THEN CHOOSE k \in 1 .. Len(cs) : cs[k] = "." /\ \A j \in 1 .. (k - 1) : cs[j] # "."
    ELSE Len(cs) + 1

\* an unsigned decimal literal: digits, at most one ".", at least one digit
UnsignedLiteral(cs) ==
    LET d == DotAt(cs)
        ip == SubSeq(cs, 1, d - 1)
        fp == SubSeq(cs, d + 1, Len(cs))
    IN  IF /\ Len(ip) + Len(fp) > 0
           /\ \A k \in 1 .. Len(ip) : IsDigit(ip[k])
           /\ \A k \in 1 .. Len(fp) : IsDigit(fp[k])
        THEN Num(IntPart(ip, 0) * Scale + FracPart(fp, Scale \div 10))
        ELSE NaN

\* Number(string): the empty string is 0, a signed decimal literal is its
\* value, anything else is NaN.  Fraction digits past the third are dropped;
\* surrounding white space, exponents, hex literals and "Infinity" are outside
\* the input alphabet used here.
StringToNumber(cs) ==
    IF cs = << >> THEN Num(0)
    ELSE IF Head(cs) = "-"
         THEN LET u == UnsignedLiteral(Tail(cs)) IN IF u.nan THEN NaN ELSE Num(0 - u.m)
         ELSE IF Head(cs) = "+" THEN UnsignedLiteral(Tail(cs))
              ELSE UnsignedLiteral(cs)

\* z.coerce.number() applies Number(input): Number(null) is 0
CoerceNumber(v) == IF v.type = "null" THEN Num(0) ELSE StringToNumber(v.value)


\* --------------------------------------------------------------- schemas
StatusValues == {"pending", "paid"}

\* customerId: z.string({ invalid_type_error: 'Please select a customer.' })
CustomerIdIssues(v) ==
    IF v.type # "string" THEN <<"Please select a customer.">> ELSE << >>

\* variant: .gte(0) in place of .gt(0)
GtZero_AllowZero(n) == n.m >= 0

GtZero(n) == n.m > 0

\* amount: z.coerce.number().gt(0, { message: ... })
AmountIssues(v) ==
    LET n == CoerceNumber(v)
    IN  IF n.nan THEN <<"Expected number, received nan">>
        ELSE IF ~GtZero(n) THEN <<"Please enter an amount greater than $0.">>
        ELSE << >>

\* status: z.enum(['pending', 'paid'], { invalid_type_error: ... })
StatusIssues(v) ==
    IF v.type # "string" THEN <<"Please select an invoice status.">>
    ELSE IF v.value \notin StatusValues THEN <<"Invalid enum value.">>
    ELSE << >>

\* strict variant: customerId: z.string()
StrictCustomerIdIssues(v) ==
    IF v.type # "string" THEN <<"Expected string, received null">> ELSE << >>

\* strict variant: amount: z.coerce.number()
StrictAmountIssues(v) ==
    IF CoerceNumber(v).nan THEN <<"Expected number, received nan">> ELSE << >>

\* strict variant: status: z.enum(['pending', 'paid'])
StrictStatusIssues(v) ==
    IF v.type # "string" THEN <<"Expected 'pending' | 'paid', received null">>
    ELSE IF v.value \notin StatusValues THEN <<"Invalid enum value.">>
    ELSE << >>

Fields == {"customerId", "amount", "status"}

\* error.flatten().fieldErrors: one entry per field that has issues
FieldErrors(issues) ==
    [f \in {g \in Fields : issues[g] # << >>} |-> issues[f]]

NoErrors == [f \in {} |-> << >>]

ParsedData(form) ==
    [customerId |-> form.customerId.value,
     amount     |-> CoerceNumber(form.amount),
     status     |-> form.status.value]

\* CreateInvoice.safeParse / UpdateInvoice.safeParse (FormSchema without id, date)
SafeParse(form) ==
    LET issues == [f \in Fields |->
                     CASE f = "customerId" -> CustomerIdIssues(form.customerId)
                       [] f = "amount"     -> AmountIssues(form.amount)
                       [] f = "status"     -> StatusIssues(form.status)]
        errs == FieldErrors(issues)
    IN  [success |-> (DOMAIN errs = {}), fieldErrors |-> errs]

\* strict variant: CreateInvoice.parse, which throws when a field has issues
StrictParse(form) ==
    LET issues == [f \in Fields |->
                     CASE f = "customerId" -> StrictCustomerIdIssues(form.customerId)
                       [] f = "amount"     -> StrictAmountIssues(form.amount)
                       [] f = "status"     -> StrictStatusIssues(form.status)]
        errs == FieldErrors(issues)
    IN  [success |-> (DOMAIN errs = {}), fieldErrors |-> errs]

\* const amountInCents = amount * 100
AmountInCents(amount) == Num(amount.m * 100)

\* -------------------------------------------------------------- inputs
CustomerIdInputs == {Null, Str("c1")}

AmountInputs ==
    {Null,
     Str(<<"a", "b", "c">>),
     Str(<<"-", "5">>),
     Str(<<"1", "2", ".", "5", "0">>),
     Str(<<"1", "9", ".", "9", "9", "9">>)}

StatusInputs == {Str("draft"), Str("paid")}

Forms == [customerId : CustomerIdInputs, amount : AmountInputs, status : StatusInputs]

NoForm == [customerId |-> Null, amount |-> Null, status |-> Null]

\* ids handed to updateInvoice / deleteInvoice: the seeded row and the first
\* id the store generates
IdInputs == {1, 2}

\* new Date().toISOString().split('T')[0]
Dates == {"2024-01-02"}

SeedRow ==
    [id |-> 1, customer_id |-> "c0", amount |-> Num(1000 * Scale),
     status |-> "pending", date |-> "2024-01-01"]

\* --------------------------------------------------------------- state
VARIABLES
    table,      \* the invoices table: a set of rows
    nextId,     \* the next id the store generates on insert
    op,         \* op[i]: which server action invocation i runs
    arg,        \* arg[i]: its arguments (id, formData)
    pc,         \* pc[i]: "idle", "await_sql", "sql_settled", "done"
    stmt,       \* stmt[i]: the statement it issued
    settled,    \* settled[i]: how its statement ended and the rows it affected
    log,        \* log[i]: the collaborator calls it made, in order
    result      \* result[i]: how the invocation ended

vars == <<table, nextId, op, arg, pc, stmt, settled, log, result>>

NoStmt == [kind |-> "none", id |-> 0, customer_id |-> "", amount |-> Num(0),
           status |-> "", date |-> ""]

NotSettled == [outcome |-> "none", rowCount |-> 0]

Pending == [kind |-> "pending", errors |-> NoErrors, message |-> "", path |-> "", error |-> ""]

Returned(errs, msg) ==
    [kind |-> "return", errors |-> errs, message |-> msg, path |-> "", error |-> ""]

ReturnedVoid == [kind |-> "return", errors |-> NoErrors, message |-> "", path |-> "", error |-> ""]

Redirected(path) ==
    [kind |-> "redirect", errors |-> NoErrors, message |-> "", path |-> path, error |-> ""]

Threw(err, errs) ==
    [kind |-> "throw", errors |-> errs, message |-> "", path |-> "", error |-> err]

Ev(fn, a) == [fn |-> fn, arg |-> a]

Init ==
    /\ table = {SeedRow}
    /\ nextId = 2
    /\ op = [i \in Calls |-> "none"]
    /\ arg = [i \in Calls |-> [id |-> 0, form |-> NoForm]]
    /\ pc = [i \in Calls |-> "idle"]
    /\ stmt = [i \in Calls |-> NoStmt]
    /\ settled = [i \in Calls |-> NotSettled]
    /\ log = [i \in Calls |-> << >>]
    /\ result = [i \in Calls |-> Pending]

\* the request dispatcher starts invocations one after the other; they then
\* run concurrently
CanStart(i) ==
    /\ pc[i] = "idle"
    /\ op[i] = "none"
    /\ IF i = 1 THEN TRUE ELSE op[i - 1] # "none"


Start(i, o, id, form) ==
    /\ op' = [op EXCEPT ![i] = o]
    /\ arg' = [arg EXCEPT ![i] = [id |-> id, form |-> form]]

\* the synchronous prefix ends at "await sql`...`": the statement is handed
\* to the database client and the invocation is suspended
Await(i, s) ==
    /\ pc' = [pc EXCEPT ![i] = "await_sql"]
    /\ stmt' = [stmt EXCEPT ![i] = s]
    /\ log' = [log EXCEPT ![i] = Append(@, Ev("sql", s.kind))]
    /\ UNCHANGED result

\* the invocation ends before any statement is issued
EndEarly(i, res) ==
    /\ pc' = [pc EXCEPT ![i] = "done"]
    /\ result' = [result EXCEPT ![i] = res]
    /\ UNCHANGED <<stmt, log>>

InsertStmt(data, date) ==
    [kind |-> "insert", id |-> 0, customer_id |-> data.customerId,
     amount |-> AmountInCents(data.amount), status |-> data.status, date |-> date]

UpdateStmt(id, data) ==
    [kind |-> "update", id |-> id, customer_id |-> data.customerId,
     amount |-> AmountInCents(data.amount), status |-> data.status, date |-> ""]

DeleteStmt(id) == [NoStmt EXCEPT !.kind = "delete", !.id = id]

\* ------------------------------------------- createInvoice(prevState, formData)
createInvoice(i) ==
    /\ CanStart(i)
    /\ \E form \in Forms, date \in Dates :
         /\ Start(i, "createInvoice", 0, form)
         /\ LET validatedFields == SafeParse(form)
            IN  IF ~validatedFields.success
                THEN EndEarly(i, Returned(validatedFields.fieldErrors,
                                          "Missing Fields. Failed to Create Invoice."))
                ELSE Await(i, InsertStmt(ParsedData(form), date))
    /\ UNCHANGED <<table, nextId, settled>>

\* variant: revalidatePath inside the try block, as in deleteInvoice
createInvoiceResume_InvalidateInTry(i) ==
    /\ op[i] = "createInvoice" /\ pc[i] = "sql_settled"
    /\ log' = [log EXCEPT ![i] =
                 (IF settled[i].outcome = "threw"
                  THEN Append(@, Ev("console.error", "Database Error: Failed to Create Invoice."))
                  ELSE Append(@, Ev("revalidatePath", InvoicesPath)))
                 \o <<Ev("redirect", InvoicesPath)>>]
    /\ result' = [result EXCEPT ![i] = Redirected(InvoicesPath)]
    /\ pc' = [pc EXCEPT ![i] = "done"]
    /\ UNCHANGED <<table, nextId, op, arg, stmt, settled>>

\* after the await: catch logs the error; then revalidatePath and redirect
createInvoiceResume(i) ==
    /\ op[i] = "createInvoice" /\ pc[i] = "sql_settled"
    /\ log' = [log EXCEPT ![i] =
                 (IF settled[i].outcome = "threw"
                  THEN Append(@, Ev("console.error", "Database Error: Failed to Create Invoice."))
                  ELSE @)
                 \o <<Ev("revalidatePath", InvoicesPath), Ev("redirect", InvoicesPath)>>]
    /\ result' = [result EXCEPT ![i] = Redirected(InvoicesPath)]
    /\ pc' = [pc EXCEPT ![i] = "done"]
    /\ UNCHANGED <<table, nextId, op, arg, stmt, settled>>

\* ------------------------------------------- updateInvoice(id, preState, formData)
updateInvoice(i) ==
    /\ CanStart(i)
    /\ \E id \in IdInputs, form \in Forms :
         /\ Start(i, "updateInvoice", id, form)
         /\ LET validatedFields == SafeParse(form)
            IN  IF ~validatedFields.success
                THEN EndEarly(i, Returned(validatedFields.fieldErrors,
                                          "Missing Fields. Failed to Update Invoice."))
                ELSE Await(i, UpdateStmt(id, ParsedData(form)))
    /\ UNCHANGED <<table, nextId, settled>>

\* variant: the catch block rethrows
updateInvoiceResume_Rethrow(i) ==
    /\ op[i] = "updateInvoice" /\ pc[i] = "sql_settled"
    /\ IF settled[i].outcome = "threw"
       THEN /\ log' = [log EXCEPT ![i] =
                         Append(@, Ev("console.error", "Database Error: Failed to Update Invoice."))]
            /\ result' = [result EXCEPT ![i] = Threw("DatabaseError", NoErrors)]
       ELSE /\ log' = [log EXCEPT ![i] =
                         @ \o <<Ev("revalidatePath", InvoicesPath), Ev("redirect", InvoicesPath)>>]
            /\ result' = [result EXCEPT ![i] = Redirected(InvoicesPath)]
    /\ pc' = [pc EXCEPT ![i] = "done"]
    /\ UNCHANGED <<table, nextId, op, arg, stmt, settled>>

updateInvoiceResume(i) ==
    /\ op[i] = "updateInvoice" /\ pc[i] = "sql_settled"
    /\ log' = [log EXCEPT ![i] =
                 (IF settled[i].outcome = "threw"
                  THEN Append(@, Ev("console.error", "Database Error: Failed to Update Invoice."))
                  ELSE @)
                 \o <<Ev("revalidatePath", InvoicesPath), Ev("redirect", InvoicesPath)>>]
    /\ result' = [result EXCEPT ![i] = Redirected(InvoicesPath)]
    /\ pc' = [pc EXCEPT ![i] = "done"]
    /\ UNCHANGED <<table, nextId, op, arg, stmt, settled>>

\* ------------------------------------------------------------ deleteInvoice(id)
deleteInvoice(i) ==
    /\ CanStart(i)
    /\ \E id \in IdInputs :
         /\ Start(i, "deleteInvoice", id, NoForm)
         /\ Await(i, DeleteStmt(id))
    /\ UNCHANGED <<table, nextId, settled>>

\* variant: revalidatePath after the try/catch, as in updateInvoice
deleteInvoiceResume_InvalidateAfterTry(i) ==
    /\ op[i] = "deleteInvoice" /\ pc[i] = "sql_settled"
    /\ log' = [log EXCEPT ![i] =
                 (IF settled[i].outcome = "threw"
                  THEN Append(@, Ev("console.error", "Database Error: Failed to Delete Invoice."))
                  ELSE @)
                 \o <<Ev("revalidatePath", InvoicesPath)>>]
    /\ result' = [result EXCEPT ![i] = ReturnedVoid]
    /\ pc' = [pc EXCEPT ![i] = "done"]
    /\ UNCHANGED <<table, nextId, op, arg, stmt, settled>>

\* revalidatePath is inside the try block, after the awaited statement
deleteInvoiceResume(i) ==
    /\ op[i] = "deleteInvoice" /\ pc[i] = "sql_settled"
    /\ log' = [log EXCEPT ![i] =
                 IF settled[i].outcome = "threw"
                 THEN Append(@, Ev("console.error", "Database Error: Failed to Delete Invoice."))
                 ELSE Append(@, Ev("revalidatePath", InvoicesPath))]
    /\ result' = [result EXCEPT ![i] = ReturnedVoid]
    /\ pc' = [pc EXCEPT ![i] = "done"]
    /\ UNCHANGED <<table, nextId, op, arg, stmt, settled>>

\* ------------------------------------------- strict variant: createInvoice(formData)
\* variant: safeParse and a returned error state in place of parse
createInvoiceStrict_ReturnsErrors(i) ==
    /\ CanStart(i)
    /\ \E form \in Forms, date \in Dates :
         /\ Start(i, "createInvoiceStrict", 0, form)
         /\ LET parsed == StrictParse(form)
            IN  IF ~parsed.success
                THEN EndEarly(i, Returned(parsed.fieldErrors,
                                          "Missing Fields. Failed to Create Invoice."))
                ELSE Await(i, InsertStmt(ParsedData(form), date))
    /\ UNCHANGED <<table, nextId, settled>>

createInvoiceStrict(i) ==
    /\ CanStart(i)
    /\ \E form \in Forms, date \in Dates :
         /\ Start(i, "createInvoiceStrict", 0, form)
         /\ LET parsed == StrictParse(form)
            IN  IF ~parsed.success
                THEN EndEarly(i, Threw("ZodError", parsed.fieldErrors))
                ELSE Await(i, InsertStmt(ParsedData(form), date))
    /\ UNCHANGED <<table, nextId, settled>>

\* no try/catch: a rejected statement rejects the invocation
createInvoiceStrictResume(i) ==
    /\ op[i] = "createInvoiceStrict" /\ pc[i] = "sql_settled"
    /\ IF settled[i].outcome = "threw"
       THEN /\ result' = [result EXCEPT ![i] = Threw("DatabaseError", NoErrors)]
            /\ UNCHANGED log
       ELSE /\ log' = [log EXCEPT ![i] =
                         @ \o <<Ev("revalidatePath", InvoicesPath), Ev("redirect", InvoicesPath)>>]
            /\ result' = [result EXCEPT ![i] = Redirected(InvoicesPath)]
    /\ pc' = [pc EXCEPT ![i] = "done"]
    /\ UNCHANGED <<table, nextId, op, arg, stmt, settled>>

\* ------------------------------------------------------------------ the store
\* INSERT INTO invoices (customer_id, amount, status, date) VALUES (...)
InsertRow(t, id, s) ==
    t \cup {[id |-> id, customer_id |-> s.customer_id, amount |-> s.amount,
             status |-> s.status, date |-> s.date]}

\* variant: INSERT ... ON CONFLICT (id) DO UPDATE
UpdateRows_Upsert(t, s) ==
    IF \E r \in t : r.id = s.id
    THEN {IF r.id = s.id
          THEN [r EXCEPT !.customer_id = s.customer_id, !.amount = s.amount, !.status = s.status]
          ELSE r : r \in t}
    ELSE t \cup {[id |-> s.id, customer_id |-> s.customer_id, amount |-> s.amount,
                  status |-> s.status, date |-> s.date]}

\* variant: UPDATE without the WHERE clause
UpdateRows_NoWhere(t, s) ==
    {[r EXCEPT !.customer_id = s.customer_id, !.amount = s.amount, !.status = s.status] : r \in t}

\* UPDATE invoices SET customer_id = .., amount = .., status = .. WHERE id = ..
UpdateRows(t, s) ==
    {IF r.id = s.id
     THEN [r EXCEPT !.customer_id = s.customer_id, !.amount = s.amount, !.status = s.status]
     ELSE r : r \in t}

\* variant: DELETE without the WHERE clause
DeleteRows_NoWhere(t, id) == {r \in t : FALSE}

\* DELETE FROM invoices WHERE id = ..
DeleteRows(t, id) == {r \in t : r.id # id}

Matching(t, id) == {r \in t : r.id = id}

Settle(i, outcome, n) ==
    /\ settled' = [settled EXCEPT ![i] = [outcome |-> outcome, rowCount |-> n]]
    /\ pc' = [pc EXCEPT ![i] = "sql_settled"]
    /\ UNCHANGED <<op, arg, stmt, log, result>>

SqlInsert(i) ==
    /\ pc[i] = "await_sql" /\ stmt[i].kind = "insert"
    /\ table' = InsertRow(table, nextId, stmt[i])
    /\ nextId' = nextId + 1
    /\ Settle(i, "ok", 1)

SqlUpdate(i) ==
    /\ pc[i] = "await_sql" /\ stmt[i].kind = "update"
    /\ table' = UpdateRows(table, stmt[i])
    /\ Settle(i, "ok", Cardinality(Matching(table, stmt[i].id)))
    /\ UNCHANGED nextId

SqlDelete(i) ==
    /\ pc[i] = "await_sql" /\ stmt[i].kind = "delete"
    /\ table' = DeleteRows(table, stmt[i].id)
    /\ Settle(i, "ok", Cardinality(Matching(table, stmt[i].id)))
    /\ UNCHANGED nextId

\* the statement fails (connection lost, value rejected by a column type, ...):
\* the awaited promise rejects and the table is untouched
SqlError(i) ==
    /\ pc[i] = "await_sql"
    /\ Settle(i, "threw", 0)
    /\ UNCHANGED <<table, nextId>>

Next ==
    \E i \in Calls :
        \/ createInvoice(i)
        \/ createInvoiceResume(i)
        \/ updateInvoice(i)
        \/ updateInvoiceResume(i)
        \/ deleteInvoice(i)
        \/ deleteInvoiceResume(i)
        \/ createInvoiceStrict(i)
        \/ createInvoiceStrictResume(i)
        \/ SqlInsert(i)
        \/ SqlUpdate(i)
        \/ SqlDelete(i)
        \/ SqlError(i)

Spec == Init /\ [][Next]_vars

\* ================================================================ properties
Count(l, fn) == Cardinality({k \in DOMAIN l : l[k].fn = fn})

\* the collaborator calls of an invocation, without its console output
Effects(i) == SelectSeq(log[i], LAMBDA e : e.fn # "console.error")

Started(i) == op[i] # "none"

Done(i) == pc[i] = "done"

Lenient(i) == op[i] \in {"createInvoice", "updateInvoice"}

StmtKindOf(i) == IF op[i] = "updateInvoice" THEN "update" ELSE "insert"

\* invocation i settles its statement in this step
Settles(i) == pc[i] = "await_sql" /\ pc'[i] = "sql_settled"

\* ---------------------------------------------------------------------- C1
\* C1: a reporting-mode createInvoice or updateInvoice whose input passes
\* validation makes no invalidation or redirect before its statement attempt
\* has finished, and once it has ended it has called
\* revalidatePath('/dashboard/invoices') exactly once, then
\* redirect('/dashboard/invoices') exactly once, after the statement, whether
\* the statement succeeded or threw, and it has returned no error result.
C1_InvalidateThenRedirect ==
    \A i \in Calls :
        (Lenient(i) /\ SafeParse(arg[i].form).success) =>
            /\ (settled[i].outcome = "none") => Effects(i) \in {<< >>, <<Ev("sql", StmtKindOf(i))>>}
            /\ Done(i) =>
                 /\ settled[i].outcome \in {"ok", "threw"}
                 /\ Effects(i) = <<Ev("sql", StmtKindOf(i)),
                                   Ev("revalidatePath", InvoicesPath),
                                   Ev("redirect", InvoicesPath)>>
                 /\ result[i] = Redirected(InvoicesPath)

C1_Witness ==
    \E i, j \in Calls :
        /\ op[i] = "createInvoice" /\ Done(i) /\ settled[i].outcome = "threw"
        /\ op[j] = "updateInvoice" /\ Done(j) /\ settled[j].outcome = "ok"
        /\ result[i].kind = "redirect" /\ result[j].kind = "redirect"

\* ---------------------------------------------------------------------- C2
\* C2 (as stated): in every mutating entry point, both createInvoice variants
\* included, a throwing statement is never propagated to the caller, and the
\* insert and update operations still redirect.
C2_Original ==
    \A i \in Calls :
        (Done(i) /\ settled[i].outcome = "threw") =>
            /\ result[i].kind # "throw"
            /\ (op[i] # "deleteInvoice") => result[i] = Redirected(InvoicesPath)

\* C2 (amended): a throwing statement is recovered locally by the
\* reporting-mode createInvoice, by updateInvoice and by deleteInvoice (no
\* exception reaches the caller, and createInvoice and updateInvoice still
\* redirect); the strict createInvoice has no try/catch: there the exception
\* propagates to the caller and neither invalidation nor redirect happens.
C2_RecoveredExceptStrict ==
    \A i \in Calls :
        (Done(i) /\ settled[i].outcome = "threw") =>
            /\ (op[i] \in {"createInvoice", "updateInvoice", "deleteInvoice"}) =>
                   result[i].kind # "throw"
            /\ Lenient(i) =>
                   /\ result[i] = Redirected(InvoicesPath)
                   /\ Count(log[i], "redirect") = 1
            /\ (op[i] = "createInvoiceStrict") =>
                   /\ result[i].kind = "throw"
                   /\ result[i].error = "DatabaseError"
                   /\ Count(log[i], "revalidatePath") = 0
                   /\ Count(log[i], "redirect") = 0

C2_Witness ==
    \E i, j \in Calls :
        /\ op[i] = "createInvoiceStrict" /\ Done(i) /\ settled[i].outcome = "threw"
        /\ op[j] = "updateInvoice" /\ Done(j) /\ settled[j].outcome = "threw"

\* ---------------------------------------------------------------------- C3
C3_Failing(form) ==
    {f \in Fields :
        CASE f = "customerId" -> form.customerId.type # "string"
          [] f = "amount"     -> LET n == CoerceNumber(form.amount) IN n.nan \/ n.m <= 0
          [] f = "status"     -> \/ form.status.type # "string"
                                 \/ form.status.value \notin {"pending", "paid"}}

C3_Message(i) ==
    IF op[i] = "createInvoice" THEN "Missing Fields. Failed to Create Invoice."
    ELSE "Missing Fields. Failed to Update Invoice."

\* C3: a reporting-mode createInvoice or updateInvoice in which customerId,
\* amount or status fails its rule returns, without throwing, a result with an
\* error entry for exactly the failing fields and the 'Missing Fields' message
\* of the operation, and issues no statement, no invalidation and no redirect.
C3_ValidationErrorsReturned ==
    \A i \in Calls :
        (Lenient(i) /\ C3_Failing(arg[i].form) # {}) =>
            /\ Done(i)
            /\ result[i].kind = "return"
            /\ DOMAIN result[i].errors = C3_Failing(arg[i].form)
            /\ \A f \in DOMAIN result[i].errors : Len(result[i].errors[f]) >= 1
            /\ result[i].message = C3_Message(i)
            /\ stmt[i] = NoStmt
            /\ settled[i] = NotSettled
            /\ log[i] = << >>

C3_Witness ==
    \E i, j \in Calls :
        /\ op[i] = "updateInvoice" /\ Done(i)
        /\ C3_Failing(arg[i].form) = {"amount", "status"}
        /\ result[i].kind = "return"
        /\ op[j] = "createInvoice" /\ Done(j)
        /\ C3_Failing(arg[j].form) = {"customerId", "amount"}
        /\ CoerceNumber(arg[j].form.amount) = Num(0)
        /\ result[j].kind = "return"

\* ---------------------------------------------------------------------- C4
\* C4: deleteInvoice calls revalidatePath('/dashboard/invoices') exactly once
\* when its statement succeeded and not at all when it threw; it never
\* redirects and no exception reaches its caller.
C4_DeleteInvalidatesOnSuccessOnly ==
    \A i \in Calls :
        (op[i] = "deleteInvoice") =>
            /\ Count(log[i], "redirect") = 0
            /\ result[i].kind \in {"pending", "return"}
            /\ Done(i) =>
                 /\ result[i] = ReturnedVoid
                 /\ (settled[i].outcome = "ok") =>
                        Effects(i) = <<Ev("sql", "delete"), Ev("revalidatePath", InvoicesPath)>>
                 /\ (settled[i].outcome = "threw") => Effects(i) = <<Ev("sql", "delete")>>

C4_Witness ==
    \E i, j \in Calls :
        /\ op[i] = "deleteInvoice" /\ Done(i) /\ settled[i].outcome = "ok"
        /\ op[j] = "deleteInvoice" /\ Done(j) /\ settled[j].outcome = "threw"

\* ---------------------------------------------------------------------- C5
\* round(x) of a positive fixed-point number, as a fixed-point number
RoundHalfUp(n) == Num(((n.m + (Scale \div 2)) \div Scale) * Scale)

IsInteger(n) == ~n.nan /\ n.m % Scale = 0

\* C5: for every validated amount > 0 the amount passed to the insert or
\* update statement is an integer number of cents, equal to
\* round(amount * 100).
C5_IntegerCents ==
    \A i \in Calls :
        LET amount == CoerceNumber(arg[i].form.amount)
        IN  (stmt[i].kind \in {"insert", "update"} /\ ~amount.nan /\ amount.m > 0) =>
                /\ IsInteger(stmt[i].amount)
                /\ stmt[i].amount = RoundHalfUp(Num(amount.m * 100))

\* ---------------------------------------------------------------------- C6
\* C6: every record that reaches an insert or update statement, through any
\* entry point, has amount > 0, status 'pending' or 'paid', and a customerId
\* that is present.
C6_ValidatedRecord ==
    \A i \in Calls :
        (stmt[i].kind \in {"insert", "update"}) =>
            /\ ~CoerceNumber(arg[i].form.amount).nan
            /\ CoerceNumber(arg[i].form.amount).m > 0
            /\ stmt[i].amount.m > 0
            /\ stmt[i].status \in {"pending", "paid"}
            /\ arg[i].form.customerId.type = "string"

\* ---------------------------------------------------------------------- C7
\* C7: a strict createInvoice(formData) whose input fails validation ends by
\* propagating the validation exception, returns no structured error, and
\* issues no statement, no invalidation and no redirect.
C7_StrictValidationThrows ==
    \A i \in Calls :
        (op[i] = "createInvoiceStrict" /\ ~StrictParse(arg[i].form).success) =>
            /\ Done(i)
            /\ result[i].kind = "throw"
            /\ result[i].error = "ZodError"
            /\ stmt[i] = NoStmt
            /\ settled[i] = NotSettled
            /\ log[i] = << >>

C7_Witness ==
    \E i \in Calls :
        /\ op[i] = "createInvoiceStrict" /\ Done(i)
        /\ CoerceNumber(arg[i].form.amount).nan
        /\ result[i].kind = "throw"


\* ---------------------------------------------------------------------- C8
C8_ZeroRowsStep ==
    \A i \in Calls :
        (Settles(i) /\ stmt[i].kind = "update" /\ Matching(table, stmt[i].id) = {}) =>
            /\ table' = table
            /\ settled'[i].rowCount = 0

C8_StillRedirects ==
    \A i \in Calls :
        (op[i] = "updateInvoice" /\ Done(i) /\ stmt[i].kind = "update"
            /\ settled[i] = [outcome |-> "ok", rowCount |-> 0]) =>
            /\ result[i] = Redirected(InvoicesPath)
            /\ Count(log[i], "revalidatePath") = 1
            /\ Count(log[i], "redirect") = 1
            /\ Count(log[i], "console.error") = 0

\* C8: an updateInvoice with valid fields whose id matches no row leaves the
\* table as it was (zero rows affected), raises and returns no error, and
\* still invalidates the cache and redirects to '/dashboard/invoices'.
C8_UpdateOfMissingId == [][C8_ZeroRowsStep]_vars /\ []C8_StillRedirects

\* id 2 has never been generated by the store: the update matches no row
C8_Witness ==
    \E i \in Calls :
        /\ op[i] = "updateInvoice" /\ Done(i)
        /\ arg[i].id = 2 /\ nextId = 2
        /\ settled[i] = [outcome |-> "ok", rowCount |-> 0]
        /\ table = {SeedRow}
        /\ result[i].kind = "redirect"

\* ---------------------------------------------------------------------- C9
C9_DeleteStep ==
    \A i \in Calls :
        (Settles(i) /\ stmt[i].kind = "delete" /\ settled'[i].outcome = "ok") =>
            /\ \A r \in table' : r.id # stmt[i].id
            /\ \A r \in table : (r.id # stmt[i].id) => r \in table'
            /\ table' \subseteq table
            /\ settled'[i].rowCount = Cardinality(table) - Cardinality(table')
            /\ (Matching(table, stmt[i].id) = {}) => table' = table

C9_SecondAffectsNothing ==
    \A i, j \in Calls :
        (/\ i # j
         /\ op[i] = "deleteInvoice" /\ op[j] = "deleteInvoice"
         /\ arg[i].id = arg[j].id
         /\ settled[i].outcome = "ok" /\ settled[j].outcome = "ok") =>
            /\ settled[i].rowCount = 0 \/ settled[j].rowCount = 0
            /\ result[i].kind # "throw" /\ result[j].kind # "throw"

\* C9: a successful delete statement leaves no row with the given id and
\* every other row unchanged, and on a table without such a row it changes
\* nothing; so of two successful deleteInvoice(id) calls with the same id at
\* most one affects a row, the other affects zero rows, and neither surfaces
\* an error.
C9_DeleteIdempotent == [][C9_DeleteStep]_vars /\ []C9_SecondAffectsNothing

C9_Witness ==
    \E i, j \in Calls :
        /\ op[i] = "deleteInvoice" /\ op[j] = "deleteInvoice"
        /\ arg[i].id = 1 /\ arg[j].id = 1
        /\ Done(i) /\ Done(j)
        /\ settled[i] = [outcome |-> "ok", rowCount |-> 1]
        /\ settled[j] = [outcome |-> "ok", rowCount |-> 0]
        /\ table = {}

\* --------------------------------------------------------------------- C10
RowIds(t) == {r.id : r \in t}

C10_UpdateStep ==
    \A i \in Calls :
        (op'[i] = "updateInvoice" /\ pc'[i] # pc[i]) =>
            /\ (table' # table) => (Settles(i) /\ stmt[i].kind = "update")
            /\ RowIds(table') = RowIds(table)
            /\ Cardinality(table') = Cardinality(table)
            /\ \A r \in table : (r.id # arg'[i].id) => r \in table'
            /\ \A r \in table' : \E q \in table : q.id = r.id /\ q.date = r.date

C10_OneStatement ==
    \A i \in Calls : (op[i] = "updateInvoice") => Count(log[i], "sql") <= 1

\* C10: under any interleaving, an updateInvoice(id, ...) issues at most one
\* statement, and that statement changes only customer_id, amount and status
\* of the rows with that id: it adds and removes no row, and keeps the id and
\* date of every row and all fields of the rows with another id.
C10_UpdateFrame == [][C10_UpdateStep]_vars /\ []C10_OneStatement

\* an update of row 1 settles after a delete removed row 1: the row stays gone
C10_Witness ==
    \E i, j \in Calls :
        /\ op[i] = "deleteInvoice" /\ arg[i].id = 1
        /\ settled[i] = [outcome |-> "ok", rowCount |-> 1]
        /\ op[j] = "updateInvoice" /\ arg[j].id = 1 /\ Done(j)
        /\ settled[j] = [outcome |-> "ok", rowCount |-> 0]
        /\ Matching(table, 1) = {}

====
